---------------------------- MODULE Spec2Model ----------------------------
(***************************************************************************)
(* Model of bag/data/lti.py: class LTICircuit.                             *)
(*                                                                         *)
(* The circuit state is the four attributes set by __init__ (_n,           *)
(* _gmat_data, _cmat_data, _node_id).  Every public method is one action   *)
(* that runs the whole method body, including the exception that ends it.  *)
(* A call leaves its arguments and its outcome in `last` and the state it  *)
(* started from in `pre`; the caller then takes the outcome (Return)       *)
(* before it makes the next call, as a sequential Python caller does.      *)
(* A query also leaves there the local variables it ended with.  The       *)
(* static method dict_to_csc_mat is also taken on its own, with its        *)
(* arguments and result in `csc`.                                          *)
(*                                                                         *)
(* Floating point values are modelled as exact rationals <<num, den>>,     *)
(* den > 0, in lowest terms.                                               *)
(***************************************************************************)
EXTENDS Integers, Sequences, FiniteSets, TLC

VARIABLES node_id, n, gmat_data, cmat_data, pre, last, trim, script, csc

vars == <<node_id, n, gmat_data, cmat_data, pre, last, trim, script, csc>>

(***************************************************************************)
(* Bounds of the model.                                                    *)
(***************************************************************************)
\* number of distinct non-ground net names the callers use
MaxNames == 3

AllNames == <<"a", "b", "c", "d", "e", "f">>

GroundNames == {"gnd", "vss", "vdd"}

NonGroundNames == {AllNames[i] : i \in 1..MaxNames}

Names == GroundNames \cup NonGroundNames

(***************************************************************************)
(* Rational arithmetic (the model of Python floats).                       *)
(***************************************************************************)
Abs(x) == IF x < 0 THEN -x ELSE x

RECURSIVE GCD(_, _)
GCD(x, y) == IF y = 0 THEN x ELSE GCD(y, x % y)

Norm(num, den) ==
    LET g == GCD(Abs(num), Abs(den))
        s == IF den < 0 THEN -1 ELSE 1
    IN  <<(s * num) \div g, (s * den) \div g>>

Rat(i) == <<i, 1>>

RAdd(x, y) == Norm(x[1] * y[2] + y[1] * x[2], x[2] * y[2])

RNeg(x) == <<-x[1], x[2]>>

RSub(x, y) == RAdd(x, RNeg(y))

RMul(x, y) == Norm(x[1] * y[1], x[2] * y[2])

RIsZero(x) == x[1] = 0

\* 1 / x for x # 0
RInv(x) == Norm(x[2], x[1])

\* abs(x) and x <= y
RAbs(x) == <<Abs(x[1]), x[2]>>

RLeq(x, y) == x[1] * y[2] <= y[1] * x[2]

(***************************************************************************)
(* Exceptions.  NoExc is a normal return.                                  *)
(***************************************************************************)
NoExc == "none"

KeyError == "KeyError"

ZeroDivisionError == "ZeroDivisionError"

\* line 228: ValueError('Input and output nodes are the same.')
SameNodeError == "ValueError: Input and output nodes are the same."

\* line 297: ValueError('Shorting input/output.')
ShortedPortError == "ValueError: Shorting input/output."

\* lines 242, 315: ValueError('cap matrix is singular.')
SingularMatrixError == "ValueError: cap matrix is singular."

\* an exception raised inside numpy / scipy (bad shape, index out of range,
\* non-square factorization, ...)
LibError == "numpy/scipy error"

\* lines 266, 332: num[0] on an empty numerator
IndexError == "IndexError"

(***************************************************************************)
(* __init__                                                                *)
(***************************************************************************)
\* variant: line 50 without the 'vdd' entry
InitNodeIdNoVdd == [name \in {"gnd", "vss"} |-> -1]

InitNodeId == [name \in GroundNames |-> -1]

EmptyDict == [key \in {} |-> Rat(0)]

\* the circuit as one value: the four attributes, the exception (if any)
\* raised by the method that is running, and the (row, col) keys that
\* method has addressed with += so far
Circuit(nid, cnt, g, c, exc) ==
    [node_id |-> nid, n |-> cnt, gmat_data |-> g, cmat_data |-> c,
     exc |-> exc, touched |-> {}]

NewCircuit == Circuit(InitNodeId, 0, EmptyDict, EmptyDict, NoExc)

(***************************************************************************)
(* _get_node_id: the index of `name`, allocating the next index for a name *)
(* seen for the first time.  Returns the registry after the call and the   *)
(* answer.                                                                 *)
(***************************************************************************)
\* variant: without line 57 (self._n += 1)
GetNodeIdNoIncr(S, name) ==
    IF name \notin DOMAIN S.node_id
    THEN [S |-> [S EXCEPT !.node_id = (name :> S.n) @@ S.node_id], ans |-> S.n]
    ELSE [S |-> S, ans |-> S.node_id[name]]

GetNodeId(S, name) ==
    IF name \notin DOMAIN S.node_id
    THEN [S   |-> [S EXCEPT !.node_id = (name :> S.n) @@ S.node_id,
                            !.n = S.n + 1],
          ans |-> S.n]
    ELSE [S |-> S, ans |-> S.node_id[name]]

(***************************************************************************)
(* table[key] += val on a plain dict: reading a missing key raises         *)
(* KeyError and the table is left as it was.  D is [mat, exc, keys], keys  *)
(* the keys addressed so far; a statement after an exception is not        *)
(* executed.                                                               *)
(***************************************************************************)
DictIAdd(D, key, val) ==
    IF D.exc # NoExc THEN D
    ELSE IF key \notin DOMAIN D.mat
    THEN [D EXCEPT !.exc = KeyError, !.keys = @ \cup {key}]
    ELSE [D EXCEPT !.mat[key] = RAdd(@, val), !.keys = @ \cup {key}]

(***************************************************************************)
(* add_res, lines 80-88: order the terminals so that the larger index is   *)
(* node_p, then stamp.  D is [mat, exc] with mat = _gmat_data.             *)
(***************************************************************************)
\* variant: without the swap of lines 80-81
ResStampNoSwap(D, node_p, node_n, g) ==
    LET d1 == DictIAdd(D, <<node_p, node_p>>, g)
    IN  IF node_n >= 0
        THEN DictIAdd(
                 DictIAdd(
                     DictIAdd(d1, <<node_p, node_n>>, RNeg(g)),
                     <<node_n, node_n>>, g),
                 <<node_n, node_p>>, RNeg(g))
        ELSE d1

ResStamp(D, node_p, node_n, g) ==
    LET hi == IF node_p < node_n THEN node_n ELSE node_p
        lo == IF node_p < node_n THEN node_p ELSE node_n
        d1 == DictIAdd(D, <<hi, hi>>, g)
    IN  IF lo >= 0
        THEN DictIAdd(
                 DictIAdd(
                     DictIAdd(d1, <<hi, lo>>, RNeg(g)),
                     <<lo, lo>>, g),
                 <<lo, hi>>, RNeg(g))
        ELSE d1

(***************************************************************************)
(* add_cap, lines 144-151: the same on _cmat_data.                         *)
(***************************************************************************)
\* variant: without the swap of lines 142-143
CapStampNoSwap(D, node_p, node_n, cap) ==
    LET d1 == DictIAdd(D, <<node_p, node_p>>, cap)
    IN  IF node_n >= 0
        THEN DictIAdd(
                 DictIAdd(
                     DictIAdd(d1, <<node_p, node_n>>, RNeg(cap)),
                     <<node_n, node_n>>, cap),
                 <<node_n, node_p>>, RNeg(cap))
        ELSE d1

CapStamp(D, node_p, node_n, cap) ==
    LET hi == IF node_p < node_n THEN node_n ELSE node_p
        lo == IF node_p < node_n THEN node_p ELSE node_n
        d1 == DictIAdd(D, <<hi, hi>>, cap)
    IN  IF lo >= 0
        THEN DictIAdd(
                 DictIAdd(
                     DictIAdd(d1, <<hi, lo>>, RNeg(cap)),
                     <<lo, lo>>, cap),
                 <<lo, hi>>, RNeg(cap))
        ELSE d1

(***************************************************************************)
(* add_gm, lines 115-124.                                                  *)
(***************************************************************************)
GmStamp(D, node_p, node_n, node_cp, node_cn, gm) ==
    LET d1 == IF node_cp >= 0 /\ node_p >= 0
              THEN DictIAdd(D, <<node_p, node_cp>>, gm) ELSE D
        d2 == IF node_cp >= 0 /\ node_n >= 0
              THEN DictIAdd(d1, <<node_n, node_cp>>, RNeg(gm)) ELSE d1
        d3 == IF node_cn >= 0 /\ node_p >= 0
              THEN DictIAdd(d2, <<node_p, node_cn>>, RNeg(gm)) ELSE d2
        d4 == IF node_cn >= 0 /\ node_n >= 0
              THEN DictIAdd(d3, <<node_n, node_cn>>, gm) ELSE d3
    IN  d4

(***************************************************************************)
(* The add_* methods as functions of the circuit S (a Circuit value).  A   *)
(* method called on a circuit whose exc is set does not run: this is how   *)
(* add_transistor stops at the first primitive that raises.                *)
(***************************************************************************)
\* variant: without the self-loop guard of lines 78-79
AddResNoGuard(S, res, p_name, n_name) ==
    IF S.exc # NoExc THEN S
    ELSE
    LET r1 == GetNodeId(S, p_name)
        r2 == GetNodeId(r1.S, n_name)
        S2 == r2.S
    IN  IF RIsZero(res) THEN [S2 EXCEPT !.exc = ZeroDivisionError]
        ELSE LET d == ResStamp([mat |-> S2.gmat_data, exc |-> NoExc, keys |-> S2.touched],
                               r1.ans, r2.ans, RInv(res))
             IN  [S2 EXCEPT !.gmat_data = d.mat, !.exc = d.exc,
                             !.touched = d.keys]

\* variant: the self-loop test made on the names, before lines 75-76
AddResGuardFirst(S, res, p_name, n_name) ==
    IF S.exc # NoExc THEN S
    ELSE IF p_name = n_name THEN S
    ELSE
    LET r1 == GetNodeId(S, p_name)
        r2 == GetNodeId(r1.S, n_name)
        S2 == r2.S
    IN  IF r1.ans = r2.ans THEN S2
        ELSE IF RIsZero(res) THEN [S2 EXCEPT !.exc = ZeroDivisionError]
        ELSE LET d == ResStamp([mat |-> S2.gmat_data, exc |-> NoExc, keys |-> S2.touched],
                               r1.ans, r2.ans, RInv(res))
             IN  [S2 EXCEPT !.gmat_data = d.mat, !.exc = d.exc,
                             !.touched = d.keys]

\* variant: line 83 (g = 1 / res) before lines 75-76
AddResDivideFirst(S, res, p_name, n_name) ==
    IF S.exc # NoExc THEN S
    ELSE IF RIsZero(res) THEN [S EXCEPT !.exc = ZeroDivisionError]
    ELSE
    LET r1 == GetNodeId(S, p_name)
        r2 == GetNodeId(r1.S, n_name)
        S2 == r2.S
    IN  IF r1.ans = r2.ans THEN S2
        ELSE LET d == ResStamp([mat |-> S2.gmat_data, exc |-> NoExc, keys |-> S2.touched],
                               r1.ans, r2.ans, RInv(res))
             IN  [S2 EXCEPT !.gmat_data = d.mat, !.exc = d.exc,
                             !.touched = d.keys]

AddRes(S, res, p_name, n_name) ==
    IF S.exc # NoExc THEN S
    ELSE
    LET r1 == GetNodeId(S, p_name)
        r2 == GetNodeId(r1.S, n_name)
        S2 == r2.S
    IN  IF r1.ans = r2.ans THEN S2
        ELSE IF RIsZero(res) THEN [S2 EXCEPT !.exc = ZeroDivisionError]
        ELSE LET d == ResStamp([mat |-> S2.gmat_data, exc |-> NoExc, keys |-> S2.touched],
                               r1.ans, r2.ans, RInv(res))
             IN  [S2 EXCEPT !.gmat_data = d.mat, !.exc = d.exc,
                             !.touched = d.keys]

AddGm(S, gm, p_name, n_name, cp_name, cn_name) ==
    IF S.exc # NoExc THEN S
    ELSE
    LET r1 == GetNodeId(S, p_name)
        r2 == GetNodeId(r1.S, n_name)
        r3 == GetNodeId(r2.S, cp_name)
        r4 == GetNodeId(r3.S, cn_name)
        S4 == r4.S
    IN  IF r1.ans = r2.ans \/ r3.ans = r4.ans THEN S4
        ELSE LET d == GmStamp([mat |-> S4.gmat_data, exc |-> NoExc, keys |-> S4.touched],
                              r1.ans, r2.ans, r3.ans, r4.ans, gm)
             IN  [S4 EXCEPT !.gmat_data = d.mat, !.exc = d.exc,
                             !.touched = d.keys]

AddCap(S, cap, p_name, n_name) ==
    IF S.exc # NoExc THEN S
    ELSE
    LET r1 == GetNodeId(S, p_name)
        r2 == GetNodeId(r1.S, n_name)
        S2 == r2.S
    IN  IF r1.ans = r2.ans THEN S2
        ELSE LET d == CapStamp([mat |-> S2.cmat_data, exc |-> NoExc, keys |-> S2.touched],
                               r1.ans, r2.ans, cap)
             IN  [S2 EXCEPT !.cmat_data = d.mat, !.exc = d.exc,
                             !.touched = d.keys]

(***************************************************************************)
(* add_transistor: scale the nine parameters by fg, then the nine          *)
(* primitives in the order of lines 183-191.                               *)
(***************************************************************************)
AddTransistor(S, tran_info, d_name, g_name, s_name, b_name, fg) ==
    LET gm  == RMul(tran_info.gm, Rat(fg))
        gdsfg == RMul(tran_info.gds, Rat(fg))
        gb  == RMul(tran_info.gb, Rat(fg))
        cgd == RMul(tran_info.cgd, Rat(fg))
        cgs == RMul(tran_info.cgs, Rat(fg))
        cgb == RMul(tran_info.cgb, Rat(fg))
        cds == RMul(tran_info.cds, Rat(fg))
        cdb == RMul(tran_info.cdb, Rat(fg))
        csb == RMul(tran_info.csb, Rat(fg))
    IN  IF S.exc # NoExc THEN S
        ELSE IF RIsZero(gdsfg) THEN [S EXCEPT !.exc = ZeroDivisionError]
        ELSE
        LET ro == RInv(gdsfg)
            t1 == AddGm(S, gm, d_name, s_name, g_name, s_name)
            t2 == AddRes(t1, ro, d_name, s_name)
            t3 == AddGm(t2, gb, d_name, s_name, b_name, s_name)
            t4 == AddCap(t3, cgd, g_name, d_name)
            t5 == AddCap(t4, cgs, g_name, s_name)
            t6 == AddCap(t5, cgb, g_name, b_name)
            t7 == AddCap(t6, cds, d_name, s_name)
            t8 == AddCap(t7, cdb, d_name, b_name)
            t9 == AddCap(t8, csb, s_name, b_name)
        IN  t9

(***************************************************************************)
(* self._node_id[name] in the queries: a plain dict read, KeyError for a   *)
(* name that was never registered.                                         *)
(***************************************************************************)
\* variant: the name resolved through _get_node_id
LookupAlloc(S, name) ==
    LET r == GetNodeId(S, name) IN [S |-> r.S, ans |-> r.ans, exc |-> NoExc]

Lookup(S, name) ==
    IF name \in DOMAIN S.node_id
    THEN [S |-> S, ans |-> S.node_id[name], exc |-> NoExc]
    ELSE [S |-> S, ans |-> -1, exc |-> KeyError]

(***************************************************************************)
(* dict_to_csc_mat: keep the entries whose row is not ignore_row and whose *)
(* column is not ignore_col, and hand them with their indices unchanged to *)
(* scipy.sparse.csc_matrix, which rejects a shape with a negative          *)
(* dimension and an index outside the shape.  A matrix is                  *)
(* [exc, nrows, ncols, ent], ent a function on the retained keys.          *)
(***************************************************************************)
DictToCscMat(table, nrows, ncols, ignore_row, ignore_col) ==
    LET keep == {key \in DOMAIN table :
                     key[1] # ignore_row /\ key[2] # ignore_col}
        ok   == /\ nrows >= 0 /\ ncols >= 0
                /\ \A key \in keep : /\ 0 <= key[1] /\ key[1] < nrows
                                     /\ 0 <= key[2] /\ key[2] < ncols
    IN  [exc   |-> IF ok THEN NoExc ELSE LibError,
         nrows |-> nrows, ncols |-> ncols,
         ent   |-> [key \in keep |-> table[key]]]

\* the value of matrix M at (row, col)
At(M, row, col) ==
    IF <<row, col>> \in DOMAIN M.ent THEN M.ent[<<row, col>>] ELSE Rat(0)

\* mat[:, col_core] for a list col_core of column indices
SelectCols(M, col_core) ==
    [exc   |-> M.exc, nrows |-> M.nrows, ncols |-> Len(col_core),
     ent   |-> [key \in {k \in (0..(M.nrows - 1)) \X (0..(Len(col_core) - 1)) :
                           ~RIsZero(At(M, k[1], col_core[k[2] + 1]))}
                |-> At(M, key[1], col_core[key[2] + 1])]]

\* [idx for idx in range(n) if idx != skip], as a sequence
RECURSIVE RangeExcept(_, _, _)
RangeExcept(from, cnt, skip) ==
    IF from >= cnt THEN <<>>
    ELSE IF from = skip THEN RangeExcept(from + 1, cnt, skip)
    ELSE <<from>> \o RangeExcept(from + 1, cnt, skip)

\* determinant of the leading size x size block of M with the rows in
\* `rows` and the columns in `cols` (sequences of indices), by expansion
\* along the first row
RECURSIVE DetOf(_, _, _)
DetOf(M, rows, cols) ==
    IF Len(rows) = 0 THEN Rat(1)
    ELSE LET Drop(seq, j) == [i \in 1..(Len(seq) - 1) |->
                                 IF i < j THEN seq[i] ELSE seq[i + 1]]
             Term(j) == RMul(IF j % 2 = 1 THEN Rat(1) ELSE Rat(-1),
                             RMul(At(M, rows[1], cols[j]),
                                  DetOf(M, Tail(rows), Drop(cols, j))))
             Sum[j \in 0..Len(cols)] ==
                 IF j = 0 THEN Rat(0) ELSE RAdd(Sum[j - 1], Term(j))
         IN  Sum[Len(cols)]

Det(M) == DetOf(M, RangeExcept(0, M.nrows, -1), RangeExcept(0, M.ncols, -1))

(***************************************************************************)
(* scipy.sparse.linalg.factorized(mat) inside try/except RuntimeError:     *)
(* a non-square matrix is refused by scipy, a singular one raises          *)
(* RuntimeError, which the caller turns into 'cap matrix is singular.'.    *)
(***************************************************************************)
\* variant: without the except clause, scipy's RuntimeError reaches the caller
FactorizedUncaught(M) ==
    IF M.nrows # M.ncols THEN LibError
    ELSE IF M.nrows > 0 /\ RIsZero(Det(M)) THEN LibError
    ELSE NoExc

Factorized(M) ==
    IF M.nrows # M.ncols THEN LibError
    ELSE IF M.nrows > 0 /\ RIsZero(Det(M)) THEN SingularMatrixError
    ELSE NoExc

(***************************************************************************)
(* The numpy / scipy arithmetic of lines 244-261 and 317-327, on exact     *)
(* rationals.  A dense matrix is a matrix record whose ent is defined on   *)
(* every position.                                                         *)
(***************************************************************************)
Positions(nrows, ncols) == (0..(nrows - 1)) \X (0..(ncols - 1))

\* an array holds its entries as values: f joined with the empty table
Dense(nrows, ncols, f) ==
    [exc |-> NoExc, nrows |-> nrows, ncols |-> ncols, ent |-> f @@ EmptyDict]

\* f[lo] + ... + f[hi]
RECURSIVE RSum(_, _, _)
RSum(f, lo, hi) == IF lo > hi THEN Rat(0) ELSE RAdd(f[lo], RSum(f, lo + 1, hi))

\* np.dot(A, B)
MatMul(A, B) ==
    Dense(A.nrows, B.ncols,
          [key \in Positions(A.nrows, B.ncols) |->
              RSum([j \in 0..(A.ncols - 1) |->
                       RMul(At(A, key[1], j), At(B, j, key[2]))],
                   0, A.ncols - 1)])

\* A - B and -A
MatSub(A, B) ==
    Dense(A.nrows, A.ncols,
          [key \in Positions(A.nrows, A.ncols) |->
              RSub(At(A, key[1], key[2]), At(B, key[1], key[2]))])

MatNeg(A) ==
    Dense(A.nrows, A.ncols,
          [key \in Positions(A.nrows, A.ncols) |-> RNeg(At(A, key[1], key[2]))])

\* mat[:, col:col + 1] for 0 <= col
ColumnOf(M, col) ==
    Dense(M.nrows, 1, [key \in Positions(M.nrows, 1) |-> At(M, key[1], col)])

\* np.zeros(shape) with a single entry set: mat[row, col] = val
UnitMat(nrows, ncols, row, col, val) ==
    Dense(nrows, ncols,
          [key \in Positions(nrows, ncols) |->
              IF key = <<row, col>> THEN val ELSE Rat(0)])

\* lines 247-248 and 303-306: `if node > removed: node -= 1`
Remapped(node, removed) ==
    IF node > removed THEN node - 1 ELSE node

\* a negative index counts from the end of an axis of length len
WrapIndex(idx, len) == IF idx < 0 THEN idx + len ELSE idx

\* seq without its j-th element
Without(seq, j) ==
    [i \in 1..(Len(seq) - 1) |-> IF i < j THEN seq[i] ELSE seq[i + 1]]

\* solve_fun(X) for solve_fun = factorized(M), M square and regular:
\* the solution of M Y = X, by Cramer's rule
Solve(M, X) ==
    LET idx == RangeExcept(0, M.nrows, -1)
        det == Det(M)
        \* the (i, j) entry of the inverse of M
        InvAt(i, j) ==
            RMul(RMul(IF (i + j) % 2 = 0 THEN Rat(1) ELSE Rat(-1),
                      DetOf(M, Without(idx, j + 1), Without(idx, i + 1))),
                 RInv(det))
    IN  Dense(M.nrows, X.ncols,
              [key \in Positions(M.nrows, X.ncols) |->
                  RSum([j \in 0..(M.nrows - 1) |->
                           RMul(InvAt(key[1], j), At(X, j, key[2]))],
                       0, M.nrows - 1)])

\* numpy.poly(A): the coefficients of det(s I - A), highest power first
\* (Faddeev-LeVerrier recursion; numpy takes the product over the
\* eigenvalues, the same polynomial).  PolyFrom continues from the k-th
\* auxiliary matrix M with the coefficients acc found so far.
RECURSIVE PolyFrom(_, _, _, _)
\* the next auxiliary matrix A M + ck I and the coefficient ck
PolyNext(A, k, AM, ck, acc) ==
    PolyFrom(A, k + 1,
             Dense(A.nrows, A.nrows,
                   [key \in Positions(A.nrows, A.nrows) |->
                       IF key[1] = key[2]
                       THEN RAdd(At(AM, key[1], key[2]), ck)
                       ELSE At(AM, key[1], key[2])]),
             Append(acc, ck))

\* ck = -trace(A M) / k
PolyStep(A, k, AM, acc) ==
    PolyNext(A, k, AM,
             RMul(RNeg(RSum([i \in 0..(A.nrows - 1) |-> At(AM, i, i)],
                            0, A.nrows - 1)),
                  RInv(Rat(k))),
             acc)

PolyFrom(A, k, M, acc) ==
    IF k > A.nrows THEN acc ELSE PolyStep(A, k, MatMul(A, M), acc)

Poly(A) ==
    PolyFrom(A, 1,
             Dense(A.nrows, A.nrows,
                   [key \in Positions(A.nrows, A.nrows) |->
                       IF key[1] = key[2] THEN Rat(1) ELSE Rat(0)]),
             <<Rat(1)>>)

\* num = pbc + (d - 1) den
Ss2TfFrom(den, pbc, d) ==
    [num |-> [i \in 1..Len(den) |->
                 RAdd(pbc[i], RMul(RSub(d, Rat(1)), den[i]))],
     den |-> den]

\* scipy.signal.ss2tf for one input and one output:
\* den = poly(A), num = poly(A - B C) + (D - 1) den
Ss2Tf(amat, bmat, cmat, dmat) ==
    Ss2TfFrom(Poly(amat), Poly(MatSub(amat, MatMul(bmat, cmat))),
              At(dmat, 0, 0))

(***************************************************************************)
(* Lines 266-268 and 332-334: the loop that drops the leading numerator    *)
(* coefficients whose magnitude is at most atol, then the construction of  *)
(* the transfer function from what is left and the denominator.  num[0] on *)
(* an array without elements raises IndexError.                            *)
(***************************************************************************)
\* variant: the loop of line 266 with < in place of <=
RECURSIVE TrimLoopStrict(_, _)
TrimLoopStrict(num, atol) ==
    IF Len(num) = 0 THEN [num |-> num, exc |-> IndexError]
    ELSE IF RAbs(num[1]) # atol /\ RLeq(RAbs(num[1]), atol)
    THEN TrimLoopStrict(Tail(num), atol)
    ELSE [num |-> num, exc |-> NoExc]

\* variant: line 266 as an if, one coefficient dropped at most
TrimLoopOnce(num, atol) ==
    IF Len(num) = 0 THEN [num |-> num, exc |-> IndexError]
    ELSE IF RLeq(RAbs(num[1]), atol) THEN [num |-> Tail(num), exc |-> NoExc]
    ELSE [num |-> num, exc |-> NoExc]

RECURSIVE TrimLoop(_, _)
TrimLoop(num, atol) ==
    IF Len(num) = 0 THEN [num |-> num, exc |-> IndexError]
    ELSE IF RLeq(RAbs(num[1]), atol) THEN TrimLoop(Tail(num), atol)
    ELSE [num |-> num, exc |-> NoExc]

\* lines 266-268: the value returned (num, den) or the exception
TrimmedSystem(num, den, atol) ==
    LET t == TrimLoop(num, atol)
    IN  [num |-> t.num, den |-> den, exc |-> t.exc]

(***************************************************************************)
(* Lines 244-268 / 317-334 run only after a successful factorization and   *)
(* hand sparse and empty operands to numpy and scipy.  `post` is what the  *)
(* library does with them: it raises (LibError), or it computes what its   *)
(* documentation says (NoExc); on a system without a state (a 0 x 0        *)
(* matrix) the outcome of the whole tail is `post`, IndexError included.   *)
(***************************************************************************)
PostOutcomes == {NoExc, IndexError, LibError}

\* no transfer function: the query raised, or its result is not determined
NoTf == [num |-> <<>>, den |-> <<>>]

\* the local variables of a query that ended before it built a matrix
NoLocals == [stage |-> "none"]

\* the local variables of a query when it ends, having reached
\* dict_to_csc_mat: the statement it ended in (stage "materialize":
\* dict_to_csc_mat, "factorized": the factorization, "statespace": a later
\* statement, "return": the return statement), the node indices as they are
\* then, the ignore_row it gave to dict_to_csc_mat, and mat_shape
Locals(stage, node_in, node_out, ignore_row, nrows, ncols) ==
    [stage |-> stage, node_in |-> node_in, node_out |-> node_out,
     ignore_row |-> ignore_row, mat_shape |-> <<nrows, ncols>>]

\* a query's result: the circuit after it, the exception, whether
\* dict_to_csc_mat was reached, and the transfer function returned
QResult(S, exc, built) ==
    [S |-> S, exc |-> exc, built |-> built, tf |-> NoTf, loc |-> NoLocals]

\* the result of a query that reached its return statement or its trimming
QSystem(S, sys) ==
    [S |-> S, exc |-> sys.exc, built |-> TRUE,
     tf |-> IF sys.exc = NoExc THEN [num |-> sys.num, den |-> sys.den] ELSE NoTf,
     loc |-> NoLocals]

\* result Q of a query that ended with the locals L
Ended(Q, L) == [Q EXCEPT !.loc = L]

\* the stage of a query that got past the factorization and ended with exc
StageAfter(exc) == IF exc = NoExc THEN "return" ELSE "statespace"

\* lines 266-268 on the pair returned by ss2tf
TrimmedTf(tf, atol) == TrimmedSystem(tf.num, tf.den, atol)

\* lines 253-268, with weight_vec of line 251 and node_out of lines 247-248
VoltageGainStateSpace(cmat_core, gmat_core, gvec_in, weight_vec, node_out, atol) ==
    TrimmedTf(Ss2Tf(Solve(cmat_core, MatNeg(gmat_core)),
                    Solve(cmat_core,
                          MatNeg(MatSub(gvec_in, MatMul(gmat_core, weight_vec)))),
                    UnitMat(1, cmat_core.nrows, 0, node_out, Rat(1)),
                    UnitMat(1, 1, 0, 0, RNeg(At(weight_vec, node_out, 0)))),
              atol)

\* lines 251-268
VoltageGainReduce(cmat_core, gmat_core, cvec_in, gvec_in, node_out, atol) ==
    VoltageGainStateSpace(cmat_core, gmat_core, gvec_in,
                          Solve(cmat_core, cvec_in), node_out, atol)

\* lines 244-268 on a state vector with at least one entry
VoltageGainTail(gmat, cmat, col_core, node_in, node_out, atol) ==
    VoltageGainReduce(SelectCols(cmat, col_core), SelectCols(gmat, col_core),
                      ColumnOf(cmat, node_in), ColumnOf(gmat, node_in),
                      WrapIndex(Remapped(node_out, node_in), cmat.nrows),
                      atol)

\* lines 317-334 on a state vector with at least one entry; node_in and
\* node_out as they are after lines 303-306
ImpedanceGainTail(gmat, cmat, node_in, node_out, atol) ==
    TrimmedTf(Ss2Tf(Solve(cmat, MatNeg(gmat)),
                    Solve(cmat,
                          MatNeg(UnitMat(cmat.nrows, 1,
                                         WrapIndex(node_in, cmat.nrows), 0,
                                         Rat(-1)))),
                    UnitMat(1, cmat.nrows, 0, WrapIndex(node_out, cmat.nrows),
                            Rat(1)),
                    UnitMat(1, 1, 0, 0, Rat(0))),
              atol)

(***************************************************************************)
(* get_voltage_gain_system                                                 *)
(***************************************************************************)
\* line 227: node_in == node_out
\* variant: the comparison of line 227 for non-ground nodes only
SameNodeGroundExempt(node_in, node_out) == node_in = node_out /\ node_in >= 0

SameNode(node_in, node_out) == node_in = node_out

\* result Q of a voltage-gain query that got past its factorization, with
\* node_out as it is after lines 247-248
VoltageGainEnd(Q, node_in, node_out, size) ==
    Ended(Q, Locals(StageAfter(Q.exc), node_in, node_out, node_in,
                    size - 1, size))

VoltageGainSystem(S, in_name, out_name, atol, post) ==
    LET l1 == Lookup(S, in_name)
        l2 == Lookup(l1.S, out_name)
        S2 == l2.S
        node_in  == l1.ans
        node_out == l2.ans
        gmat == DictToCscMat(S2.gmat_data, S2.n - 1, S2.n, node_in, -1)
        cmat == DictToCscMat(S2.cmat_data, S2.n - 1, S2.n, node_in, -1)
        col_core  == RangeExcept(0, S2.n, node_in)
        cmat_core == SelectCols(cmat, col_core)
        fact == Factorized(cmat_core)
    IN  IF l1.exc # NoExc THEN QResult(l1.S, l1.exc, FALSE)
        ELSE IF l2.exc # NoExc THEN QResult(S2, l2.exc, FALSE)
        ELSE IF SameNode(node_in, node_out) THEN QResult(S2, SameNodeError, FALSE)
        ELSE IF gmat.exc # NoExc
        THEN Ended(QResult(S2, gmat.exc, TRUE),
                   Locals("materialize", node_in, node_out, node_in,
                          S2.n - 1, S2.n))
        ELSE IF cmat.exc # NoExc
        THEN Ended(QResult(S2, cmat.exc, TRUE),
                   Locals("materialize", node_in, node_out, node_in,
                          S2.n - 1, S2.n))
        ELSE IF fact # NoExc
        THEN Ended(QResult(S2, fact, TRUE),
                   Locals("factorized", node_in, node_out, node_in,
                          S2.n - 1, S2.n))
        ELSE VoltageGainEnd(
                 IF cmat.nrows = 0 \/ post = LibError
                 THEN QResult(S2, post, TRUE)
                 ELSE QSystem(S2, VoltageGainTail(gmat, cmat, col_core, node_in,
                                                  node_out, atol)),
                 node_in, Remapped(node_out, node_in), S2.n)

(***************************************************************************)
(* get_impedance_gain_system; short_name = "" means no short.              *)
(***************************************************************************)
\* line 296: node_in == node_short or node_out == node_short
\* variant: line 296 without the test of node_out
ShortedInputOnly(node_in, node_out, node_short) == node_in = node_short

Shorted(node_in, node_out, node_short) ==
    node_in = node_short \/ node_out = node_short

\* result Q of an impedance-gain query that got past its factorization
ImpedanceGainEnd(Q, node_in, node_out, ignore_row, dim) ==
    Ended(Q, Locals(StageAfter(Q.exc), node_in, node_out, ignore_row, dim, dim))

ImpedanceGainSystem(S, in_name, out_name, short_name, atol, post) ==
    LET l1 == Lookup(S, in_name)
        l2 == Lookup(l1.S, out_name)
        l3 == IF short_name # "" THEN Lookup(l2.S, short_name)
              ELSE [S |-> l2.S, ans |-> -1, exc |-> NoExc]
        S3 == l3.S
        node_short == l3.ans
        dim  == IF short_name # "" THEN S3.n - 1 ELSE S3.n
        gmat == DictToCscMat(S3.gmat_data, dim, dim, node_short, node_short)
        cmat == DictToCscMat(S3.cmat_data, dim, dim, node_short, node_short)
        fact == Factorized(cmat)
        \* lines 303-306
        node_in  == IF short_name # "" THEN Remapped(l1.ans, node_short)
                    ELSE l1.ans
        node_out == IF short_name # "" THEN Remapped(l2.ans, node_short)
                    ELSE l2.ans
    IN  IF l1.exc # NoExc THEN QResult(l1.S, l1.exc, FALSE)
        ELSE IF l2.exc # NoExc THEN QResult(l2.S, l2.exc, FALSE)
        ELSE IF l3.exc # NoExc THEN QResult(S3, l3.exc, FALSE)
        ELSE IF short_name # "" /\ Shorted(l1.ans, l2.ans, node_short)
        THEN QResult(S3, ShortedPortError, FALSE)
        ELSE IF gmat.exc # NoExc
        THEN Ended(QResult(S3, gmat.exc, TRUE),
                   Locals("materialize", l1.ans, l2.ans, node_short, dim, dim))
        ELSE IF cmat.exc # NoExc
        THEN Ended(QResult(S3, cmat.exc, TRUE),
                   Locals("materialize", l1.ans, l2.ans, node_short, dim, dim))
        ELSE IF fact # NoExc
        THEN Ended(QResult(S3, fact, TRUE),
                   Locals("factorized", node_in, node_out, node_short, dim, dim))
        ELSE ImpedanceGainEnd(
                 IF dim = 0 \/ post = LibError
                 THEN QResult(S3, post, TRUE)
                 ELSE QSystem(S3, ImpedanceGainTail(gmat, cmat, node_in,
                                                    node_out, atol)),
                 node_in, node_out, node_short, dim)

(***************************************************************************)
(* get_impedance: the impedance-gain system with input = output = node,    *)
(* then its frequency response.                                            *)
(***************************************************************************)
\* complex numbers <<re, im>> over the rationals
CAdd(x, y) == <<RAdd(x[1], y[1]), RAdd(x[2], y[2])>>

CMul(x, y) ==
    <<RSub(RMul(x[1], y[1]), RMul(x[2], y[2])),
      RAdd(RMul(x[1], y[2]), RMul(x[2], y[1]))>>

CIsZero(x) == RIsZero(x[1]) /\ RIsZero(x[2])

\* x / y for y # 0
CDiv(x, y) ==
    LET norm == RAdd(RMul(y[1], y[1]), RMul(y[2], y[2]))
        prod == CMul(x, <<y[1], RNeg(y[2])>>)
    IN  <<RMul(prod[1], RInv(norm)), RMul(prod[2], RInv(norm))>>

\* numpy.polyval(coef, z)
RECURSIVE PolyVal(_, _)
PolyVal(coef, z) ==
    IF Len(coef) = 0 THEN <<Rat(0), Rat(0)>>
    ELSE CAdd(CMul(PolyVal(SubSeq(coef, 1, Len(coef) - 1), z), z),
              <<coef[Len(coef)], Rat(0)>>)

\* no complex value: nothing returned, or a division by zero in numpy
NoValue == <<>>

\* sys.freqresp(w=[w_test])[1][0]: num(j w) / den(j w)
FreqResp(tf, w_test) ==
    LET jw == <<Rat(0), w_test>>
        dv == PolyVal(tf.den, jw)
    IN  IF CIsZero(dv) THEN NoValue ELSE CDiv(PolyVal(tf.num, jw), dv)

\* line 359: w_test = 2 * np.pi * freq.  A frequency is given by the
\* rational q with freq = q / (2 pi) Hz, so that w_test is the rational q.
WTest(freq) == freq.two_pi_hz

\* lines 359-361 on the result Q of line 358
ImpedanceAt(Q, freq) ==
    [S |-> Q.S, exc |-> Q.exc, built |-> Q.built, tf |-> Q.tf, loc |-> Q.loc,
     zin |-> IF Q.exc = NoExc /\ Q.tf # NoTf
             THEN FreqResp(Q.tf, WTest(freq)) ELSE NoValue]

GetImpedance(S, node_name, freq, short_name, atol, post) ==
    ImpedanceAt(ImpedanceGainSystem(S, node_name, node_name, short_name,
                                    atol, post),
                freq)

(***************************************************************************)
(* Inputs of the calls.                                                    *)
(***************************************************************************)
ResValues == {Rat(0), Rat(1), Rat(2)}

CapValues == {Rat(1), Rat(3)}

GmValues == {Rat(2), Rat(-1)}

FgValues == {1, 2}

TranInfos ==
    << [gm |-> Rat(3), gds |-> Rat(1), gb |-> Rat(1), cgd |-> Rat(1),
        cgs |-> Rat(2), cgb |-> Rat(1), cds |-> Rat(1), cdb |-> Rat(1),
        csb |-> Rat(1)],
       [gm |-> Rat(3), gds |-> Rat(0), gb |-> Rat(1), cgd |-> Rat(1),
        cgs |-> Rat(2), cgb |-> Rat(1), cds |-> Rat(1), cdb |-> Rat(1),
        csb |-> Rat(1)] >>

ShortNames == Names \cup {""}

AtolValues == {Rat(0), <<1, 2>>, Rat(1)}

Frequencies == {[two_pi_hz |-> Rat(0)], [two_pi_hz |-> Rat(1)]}

(***************************************************************************)
(* The state machine.                                                      *)
(***************************************************************************)
Cur == Circuit(node_id, n, gmat_data, cmat_data, NoExc)

\* what a call leaves for the caller: the method, its net names, its value
\* argument (fg for add_transistor), the index of its tran_info, the
\* exception raised (NoExc: returned), whether a matrix was built, and the
\* accumulator keys it addressed; for a query also atol, freq and the
\* value returned
Call(op, names, val, info, exc, built, touched) ==
    [op |-> op, names |-> names, val |-> val, info |-> info,
     exc |-> exc, built |-> built, touched |-> touched,
     atol |-> Rat(0), freq |-> [two_pi_hz |-> Rat(0)],
     tf |-> NoTf, zin |-> NoValue, loc |-> NoLocals]

Idle == Call("idle", <<>>, Rat(0), 0, NoExc, FALSE, {})

\* no caller's script is running
NoScript == [name |-> "none", pc |-> 0, res |-> Rat(0), cap |-> Rat(0),
             gm |-> Rat(0), freq |-> [two_pi_hz |-> Rat(0)]]

\* dict_to_csc_mat, outside a query: no table at hand
NoCsc == [pc |-> "none"]

\* the numerator trimming, outside a query: no numerator at hand
NoTrim == [pc |-> "none", num |-> <<>>, den |-> <<>>, atol |-> Rat(0),
           first |-> <<>>, second |-> <<>>]

Init ==
    /\ node_id = NewCircuit.node_id
    /\ n = NewCircuit.n
    /\ gmat_data = NewCircuit.gmat_data
    /\ cmat_data = NewCircuit.cmat_data
    /\ pre = NewCircuit
    /\ last = Idle
    /\ trim = NoTrim
    /\ script = NoScript
    /\ csc = NoCsc

\* what a query leaves for the caller
QueryCall(op, names, atol, freq, Q, zin) ==
    [Call(op, names, Rat(0), 0, Q.exc, Q.built, {})
     EXCEPT !.atol = atol, !.freq = freq, !.tf = Q.tf, !.zin = zin,
            !.loc = Q.loc]

\* the attributes after a method that ended in circuit R
Becomes(R) ==
    /\ node_id' = R.node_id
    /\ n' = R.n
    /\ gmat_data' = R.gmat_data
    /\ cmat_data' = R.cmat_data
    /\ pre' = Cur
    /\ UNCHANGED <<trim, csc>>

\* a query that ended with result Q
Returns(op, names, atol, freq, Q) ==
    /\ Becomes(Q.S)
    /\ last' = QueryCall(op, names, atol, freq, Q,
                         IF op = "get_impedance" THEN Q.zin ELSE NoValue)

add_res ==
    /\ last = Idle
    /\ UNCHANGED script
    /\ \E res \in ResValues, p_name \in Names, n_name \in Names :
          LET R == AddRes(Cur, res, p_name, n_name)
          IN  /\ Becomes(R)
              /\ last' = Call("add_res", <<p_name, n_name>>, res, 0, R.exc, FALSE, R.touched)

add_gm ==
    /\ last = Idle
    /\ UNCHANGED script
    /\ \E gm \in GmValues, p_name \in Names, n_name \in Names,
          cp_name \in Names, cn_name \in Names :
          LET R == AddGm(Cur, gm, p_name, n_name, cp_name, cn_name)
          IN  /\ Becomes(R)
              /\ last' = Call("add_gm", <<p_name, n_name, cp_name, cn_name>>,
                              gm, 0, R.exc, FALSE, R.touched)

add_cap ==
    /\ last = Idle
    /\ UNCHANGED script
    /\ \E cap \in CapValues, p_name \in Names, n_name \in Names :
          LET R == AddCap(Cur, cap, p_name, n_name)
          IN  /\ Becomes(R)
              /\ last' = Call("add_cap", <<p_name, n_name>>, cap, 0, R.exc, FALSE, R.touched)

add_transistor ==
    /\ last = Idle
    /\ UNCHANGED script
    /\ \E info \in DOMAIN TranInfos, fg \in FgValues, d_name \in Names,
          g_name \in Names, s_name \in Names, b_name \in Names :
          LET R == AddTransistor(Cur, TranInfos[info], d_name, g_name,
                                 s_name, b_name, fg)
          IN  /\ Becomes(R)
              /\ last' = Call("add_transistor",
                              <<d_name, g_name, s_name, b_name>>,
                              Rat(fg), info, R.exc, FALSE, R.touched)

get_voltage_gain_system ==
    /\ last = Idle
    /\ UNCHANGED script
    /\ \E in_name \in Names, out_name \in Names, atol \in AtolValues,
          post \in PostOutcomes :
          Returns("get_voltage_gain_system", <<in_name, out_name>>, atol,
                  Idle.freq,
                  VoltageGainSystem(Cur, in_name, out_name, atol, post))

get_impedance_gain_system ==
    /\ last = Idle
    /\ UNCHANGED script
    /\ \E in_name \in Names, out_name \in Names, short_name \in ShortNames,
          atol \in AtolValues, post \in PostOutcomes :
          Returns("get_impedance_gain_system",
                  <<in_name, out_name, short_name>>, atol, Idle.freq,
                  ImpedanceGainSystem(Cur, in_name, out_name, short_name,
                                      atol, post))

get_impedance ==
    /\ last = Idle
    /\ UNCHANGED script
    /\ \E node_name \in Names, freq \in Frequencies, short_name \in ShortNames,
          atol \in AtolValues, post \in PostOutcomes :
          Returns("get_impedance", <<node_name, short_name>>, atol, freq,
                  GetImpedance(Cur, node_name, freq, short_name, atol, post))

\* the caller takes the result (or catches the exception) and goes on
Return ==
    /\ last # Idle
    /\ last' = Idle
    /\ pre' = Cur
    /\ UNCHANGED <<node_id, n, gmat_data, cmat_data, trim, script, csc>>

Next ==
    \/ add_res
    \/ add_gm
    \/ add_cap
    \/ add_transistor
    \/ get_voltage_gain_system
    \/ get_impedance_gain_system
    \/ get_impedance
    \/ Return

Spec == Init /\ [][Next]_vars

(***************************************************************************)
(* The numerator trimming on its own (lines 266-268, 332-334): ss2tf has   *)
(* returned a numerator and a denominator, the loop trims the numerator    *)
(* and the system is returned; the caller may hand the returned numerator  *)
(* to the same loop again.                                                 *)
(***************************************************************************)
MaxNumLen == 3

Coefficients == {Rat(0), <<1, 2>>, Rat(1), Rat(-1), Rat(2)}

Numerators == UNION {[1..len -> Coefficients] : len \in 1..MaxNumLen}

Denominators == {<<Rat(1), Rat(2)>>, <<Rat(1), Rat(0), Rat(3)>>}

TrimInit ==
    /\ node_id = NewCircuit.node_id
    /\ n = NewCircuit.n
    /\ gmat_data = NewCircuit.gmat_data
    /\ cmat_data = NewCircuit.cmat_data
    /\ pre = NewCircuit
    /\ last = Idle
    /\ script = NoScript
    /\ csc = NoCsc
    /\ \E num \in Numerators, den \in Denominators, atol \in AtolValues :
          trim = [pc |-> "ss2tf", num |-> num, den |-> den, atol |-> atol,
                  first |-> <<>>, second |-> <<>>]

trim_numerator ==
    /\ trim.pc = "ss2tf"
    /\ trim' = [trim EXCEPT !.pc = "returned",
                            !.first = TrimmedSystem(trim.num, trim.den, trim.atol)]
    /\ UNCHANGED <<node_id, n, gmat_data, cmat_data, pre, last, script, csc>>

trim_again ==
    /\ trim.pc = "returned"
    /\ trim.first.exc = NoExc
    /\ trim' = [trim EXCEPT !.pc = "again",
                            !.second = TrimmedSystem(trim.first.num, trim.first.den,
                                                     trim.atol)]
    /\ UNCHANGED <<node_id, n, gmat_data, cmat_data, pre, last, script, csc>>

TrimNext ==
    \/ trim_numerator
    \/ trim_again

TrimSpec == TrimInit /\ [][TrimNext]_vars

(***************************************************************************)
(* dict_to_csc_mat on its own (a static method, lines 193-204), called as  *)
(* the queries call it on a table whose keys are pairs of indices of the   *)
(* size nodes of a circuit:                                                *)
(*   "voltage_gain":  shape (size - 1, size), ignore_row = node (lines     *)
(*                    230-232), then the columns col_core (lines 235-237)  *)
(*   "short":         shape (size - 1, size - 1), ignore_row = ignore_col  *)
(*                    = node (lines 299-302)                               *)
(*   "impedance":     shape (size, size), nothing ignored (lines 308-310)  *)
(* node is the index _node_id gives for the name of the query, -1 for a    *)
(* ground alias.                                                           *)
(***************************************************************************)
MaxNodes == 3

\* the value stored at key: a different one at every key
TableValue(key) == Rat(1 + 10 * key[1] + key[2])

\* the tables with keys on some rows and some columns of the size nodes
Tables(size) ==
    {[key \in rc[1] \X rc[2] |-> TableValue(key)] :
        rc \in (SUBSET (0..(size - 1))) \X (SUBSET (0..(size - 1)))}

CallSites == {"voltage_gain", "short", "impedance"}

CscCalls ==
    UNION {{[pc |-> "call", site |-> site, size |-> size, table |-> table,
             node |-> IF site = "impedance" THEN -1 ELSE node,
             mat |-> <<>>, core |-> <<>>] :
               site \in CallSites, table \in Tables(size),
               node \in (-1)..(size - 1)} : size \in 1..MaxNodes}

CscInit ==
    /\ node_id = NewCircuit.node_id
    /\ n = NewCircuit.n
    /\ gmat_data = NewCircuit.gmat_data
    /\ cmat_data = NewCircuit.cmat_data
    /\ pre = NewCircuit
    /\ last = Idle
    /\ trim = NoTrim
    /\ script = NoScript
    /\ csc \in CscCalls

\* the call of dict_to_csc_mat at the call site c.site
CscMat(c) ==
    IF c.site = "voltage_gain"
    THEN DictToCscMat(c.table, c.size - 1, c.size, c.node, -1)
    ELSE IF c.site = "short"
    THEN DictToCscMat(c.table, c.size - 1, c.size - 1, c.node, c.node)
    ELSE DictToCscMat(c.table, c.size, c.size, -1, -1)

dict_to_csc_mat ==
    /\ csc.pc = "call"
    /\ csc' = [csc EXCEPT !.pc = "built", !.mat = CscMat(csc)]
    /\ UNCHANGED <<node_id, n, gmat_data, cmat_data, pre, last, trim, script>>

\* lines 235-237: mat[:, col_core]
core_columns ==
    /\ csc.pc = "built"
    /\ csc.site = "voltage_gain"
    /\ csc.mat.exc = NoExc
    /\ csc' = [csc EXCEPT !.pc = "core",
                          !.core = SelectCols(csc.mat,
                                              RangeExcept(0, csc.size, csc.node))]
    /\ UNCHANGED <<node_id, n, gmat_data, cmat_data, pre, last, trim, script>>

CscNext ==
    \/ dict_to_csc_mat
    \/ core_columns

CscSpec == CscInit /\ [][CscNext]_vars

(***************************************************************************)
(* A caller that builds one small circuit on a new object and queries it,  *)
(* one call after the other; an exception of a call ends the script.       *)
(* The library is taken to compute what it documents (post = NoExc), the   *)
(* tolerance is the default 0.                                             *)
(*   rc:  add_res(R, in, out); add_cap(C, out, gnd);                       *)
(*        get_voltage_gain_system(in, out)                                 *)
(*   cs:  add_gm(gm, out, gnd, in, gnd); add_res(R, out, gnd);             *)
(*        add_cap(C, out, gnd); get_voltage_gain_system(in, out)           *)
(*   zin: add_res(R, out, gnd); add_cap(C, out, gnd);                      *)
(*        get_impedance(out, freq)                                         *)
(***************************************************************************)
ScriptRes == {Rat(1), Rat(2), <<1, 2>>}

ScriptCaps == {Rat(1), Rat(2), Rat(3), <<1, 2>>}

ScriptGms == {Rat(1), Rat(2), Rat(-1)}

ScriptLength == [rc |-> 3, cs |-> 4, zin |-> 3]

Scripts ==
    {[name |-> "rc", pc |-> 1, res |-> r, cap |-> c, gm |-> Rat(0),
      freq |-> [two_pi_hz |-> Rat(0)]] : r \in ScriptRes, c \in ScriptCaps}
    \cup {[name |-> "cs", pc |-> 1, res |-> r[1], cap |-> c, gm |-> r[2],
           freq |-> [two_pi_hz |-> Rat(0)]] :
              r \in ScriptRes \X ScriptGms, c \in ScriptCaps}
    \cup {[name |-> "zin", pc |-> 1, res |-> r[1], cap |-> c, gm |-> Rat(0),
           freq |-> r[2]] : r \in ScriptRes \X Frequencies, c \in ScriptCaps}

ScriptInit ==
    /\ node_id = NewCircuit.node_id
    /\ n = NewCircuit.n
    /\ gmat_data = NewCircuit.gmat_data
    /\ cmat_data = NewCircuit.cmat_data
    /\ pre = NewCircuit
    /\ last = Idle
    /\ trim = NoTrim
    /\ csc = NoCsc
    /\ script \in Scripts

\* the call at position pc of the script is an add: its method, nets, value
ScriptAdd ==
    LET adds == IF script.name = "cs"
                THEN << <<"add_gm", <<"b", "gnd", "a", "gnd">>, script.gm>>,
                        <<"add_res", <<"b", "gnd">>, script.res>>,
                        <<"add_cap", <<"b", "gnd">>, script.cap>> >>
                ELSE IF script.name = "rc"
                THEN << <<"add_res", <<"a", "b">>, script.res>>,
                        <<"add_cap", <<"b", "gnd">>, script.cap>> >>
                ELSE << <<"add_res", <<"b", "gnd">>, script.res>>,
                        <<"add_cap", <<"b", "gnd">>, script.cap>> >>
    IN  adds[script.pc]

\* the circuit after add call c = <<method, nets, value>>
ScriptAdded(c) ==
    IF c[1] = "add_gm" THEN AddGm(Cur, c[3], c[2][1], c[2][2], c[2][3], c[2][4])
    ELSE IF c[1] = "add_res" THEN AddRes(Cur, c[3], c[2][1], c[2][2])
    ELSE AddCap(Cur, c[3], c[2][1], c[2][2])

\* the add call c ended in circuit R
ScriptAdds(c, R) ==
    /\ Becomes(R)
    /\ last' = Call(c[1], c[2], c[3], 0, R.exc, FALSE, R.touched)

script_call ==
    /\ script.name # "none"
    /\ script.pc <= ScriptLength[script.name]
    /\ last.exc = NoExc
    /\ script' = [script EXCEPT !.pc = @ + 1]
    /\ IF script.pc < ScriptLength[script.name]
       THEN ScriptAdds(ScriptAdd, ScriptAdded(ScriptAdd))
       ELSE IF script.name = "zin"
       THEN Returns("get_impedance", <<"b", "">>, Rat(0), script.freq,
                    GetImpedance(Cur, "b", script.freq, "", Rat(0), NoExc))
       ELSE Returns("get_voltage_gain_system", <<"a", "b">>, Rat(0),
                    Idle.freq,
                    VoltageGainSystem(Cur, "a", "b", Rat(0), NoExc))

ScriptNext == script_call

ScriptSpec == ScriptInit /\ [][ScriptNext]_vars

(***************************************************************************)
(* A caller that makes one add_transistor call on a new object, its four   *)
(* terminals on any of four nets.                                          *)
(***************************************************************************)
TranNets == {"d", "g", "s", "b"}

TranInit ==
    /\ node_id = NewCircuit.node_id
    /\ n = NewCircuit.n
    /\ gmat_data = NewCircuit.gmat_data
    /\ cmat_data = NewCircuit.cmat_data
    /\ pre = NewCircuit
    /\ last = Idle
    /\ trim = NoTrim
    /\ script = NoScript
    /\ csc = NoCsc

first_transistor ==
    /\ last = Idle
    /\ Cur = NewCircuit
    /\ UNCHANGED script
    /\ \E info \in DOMAIN TranInfos, fg \in FgValues, d_name \in TranNets,
          g_name \in TranNets, s_name \in TranNets, b_name \in TranNets :
          LET R == AddTransistor(Cur, TranInfos[info], d_name, g_name,
                                 s_name, b_name, fg)
          IN  /\ Becomes(R)
              /\ last' = Call("add_transistor",
                              <<d_name, g_name, s_name, b_name>>,
                              Rat(fg), info, R.exc, FALSE, R.touched)

TranNext == first_transistor

TranSpec == TranInit /\ [][TranNext]_vars

(***************************************************************************)
(* Vocabulary of the properties.                                           *)
(***************************************************************************)
PrimitiveAdds == {"add_res", "add_cap", "add_gm"}

AddOps == PrimitiveAdds \cup {"add_transistor"}

QueryOps == {"get_voltage_gain_system", "get_impedance_gain_system",
             "get_impedance"}

\* the accumulated value at key, 0 for a key that was never written
Entry(mat, key) == IF key \in DOMAIN mat THEN mat[key] ELSE Rat(0)

\* the index the i-th net name of the last call resolves to
IdOf(i) == node_id[last.names[i]]

\* every (row, col) over ground and the registered nodes
AllKeys == ((-1)..(n - 1)) \X ((-1)..(n - 1))

\* the last call is an add_res / add_cap that is not a self-loop and does
\* not divide by zero
TwoTerminalCall(op) ==
    /\ last.op = op
    /\ IdOf(1) # IdOf(2)
    /\ ~(op = "add_res" /\ RIsZero(last.val))

\* the last call is an add_gm with p # n and cp # cn as indices
GmCall ==
    /\ last.op = "add_gm"
    /\ IdOf(1) # IdOf(2)
    /\ IdOf(3) # IdOf(4)

\* the contribution of a two-terminal element of value x between indices
\* p and q to the entry at key: [[+x, -x], [-x, +x]] restricted to the
\* non-ground terminals
TwoTerminalDelta(p, q, x, key) ==
    IF key[1] < 0 \/ key[2] < 0 THEN Rat(0)
    ELSE IF key = <<p, p>> \/ key = <<q, q>> THEN x
    ELSE IF key = <<p, q>> \/ key = <<q, p>> THEN RNeg(x)
    ELSE Rat(0)

\* the contribution of a VCCS gm (p, q) controlled by (cp, cq)
GmDelta(p, q, cp, cq, gm, key) ==
    IF key[1] < 0 \/ key[2] < 0 THEN Rat(0)
    ELSE IF key = <<p, cp>> \/ key = <<q, cq>> THEN gm
    ELSE IF key = <<q, cp>> \/ key = <<p, cq>> THEN RNeg(gm)
    ELSE Rat(0)

(***************************************************************************)
(* C1: every add_res, add_cap or add_gm whose terminals resolve to         *)
(* different indices completes without error, a key never written counting *)
(* as 0, and leaves every entry of G and C equal to its previous value     *)
(* plus the contribution of the element at that (row, col).                *)
(***************************************************************************)
C1_AddCompletesAndAccumulates ==
    /\ TwoTerminalCall("add_res") =>
          /\ last.exc = NoExc
          /\ \A key \in AllKeys :
                Entry(gmat_data, key) =
                   RAdd(Entry(pre.gmat_data, key),
                        TwoTerminalDelta(IdOf(1), IdOf(2), RInv(last.val), key))
    /\ TwoTerminalCall("add_cap") =>
          /\ last.exc = NoExc
          /\ \A key \in AllKeys :
                Entry(cmat_data, key) =
                   RAdd(Entry(pre.cmat_data, key),
                        TwoTerminalDelta(IdOf(1), IdOf(2), last.val, key))
    /\ GmCall =>
          /\ last.exc = NoExc
          /\ \A key \in AllKeys :
                Entry(gmat_data, key) =
                   RAdd(Entry(pre.gmat_data, key),
                        GmDelta(IdOf(1), IdOf(2), IdOf(3), IdOf(4), last.val, key))

(***************************************************************************)
(* C2: after add_res(R, p, n) with p, n distinct non-ground nodes G[p,p]   *)
(* and G[n,n] are increased by 1/R and G[p,n], G[n,p] decreased by 1/R, in *)
(* either order of the terminals; with exactly one ground terminal only    *)
(* the diagonal entry of the other node is increased by 1/R and no other   *)
(* key is written.                                                         *)
(***************************************************************************)
C2_ResistorStamp ==
    TwoTerminalCall("add_res") =>
        LET p == IdOf(1)
            q == IdOf(2)
            g == RInv(last.val)
            Old(key) == Entry(pre.gmat_data, key)
            New(key) == Entry(gmat_data, key)
        IN  IF p >= 0 /\ q >= 0
            THEN /\ New(<<p, p>>) = RAdd(Old(<<p, p>>), g)
                 /\ New(<<q, q>>) = RAdd(Old(<<q, q>>), g)
                 /\ New(<<p, q>>) = RSub(Old(<<p, q>>), g)
                 /\ New(<<q, p>>) = RSub(Old(<<q, p>>), g)
            ELSE LET k == IF p >= 0 THEN p ELSE q
                 IN  /\ New(<<k, k>>) = RAdd(Old(<<k, k>>), g)
                     /\ DOMAIN gmat_data \subseteq DOMAIN pre.gmat_data \cup {<<k, k>>}
                     /\ \A key \in DOMAIN pre.gmat_data \ {<<k, k>>} :
                           gmat_data[key] = pre.gmat_data[key]

(***************************************************************************)
(* C3: add_gm(gm, p, n, cp, cn) with p # n and cp # cn changes exactly     *)
(* +gm at (p,cp), -gm at (n,cp), -gm at (p,cn), +gm at (n,cn), each only   *)
(* when its row node and column node are non-ground; nothing else in G     *)
(* changes and C is unchanged.                                             *)
(***************************************************************************)
C3_GmStamp ==
    GmCall =>
        /\ \A key \in AllKeys :
              Entry(gmat_data, key) =
                 RAdd(Entry(pre.gmat_data, key),
                      GmDelta(IdOf(1), IdOf(2), IdOf(3), IdOf(4), last.val, key))
        /\ DOMAIN gmat_data \subseteq AllKeys
        /\ cmat_data = pre.cmat_data

(***************************************************************************)
(* C4: an element whose two terminals resolve to the same index is dropped *)
(* without error and leaves G and C unchanged: add_res and add_cap when p  *)
(* and n resolve equal (two ground aliases included), add_gm when p and n  *)
(* or cp and cn resolve equal.                                             *)
(***************************************************************************)
SelfLoopCall ==
    \/ last.op \in {"add_res", "add_cap"} /\ IdOf(1) = IdOf(2)
    \/ last.op = "add_gm" /\ (IdOf(1) = IdOf(2) \/ IdOf(3) = IdOf(4))

C4_SelfLoopDropped ==
    SelfLoopCall =>
        /\ last.exc = NoExc
        /\ last.touched = {}
        /\ gmat_data = pre.gmat_data
        /\ cmat_data = pre.cmat_data

C4_Witness ==
    /\ last.op = "add_res"
    /\ last.names = <<"gnd", "vdd">>
    /\ last.exc = NoExc
    /\ n > 0

(***************************************************************************)
(* C5: in every reachable state every key of G and of C has its row and    *)
(* its column in 0..n-1; no ground (-1) row or column is stamped.  The     *)
(* keys a call addressed, written or not, are held to the same range.      *)
(***************************************************************************)
C5_KeysInRange ==
    \A key \in DOMAIN gmat_data \cup DOMAIN cmat_data \cup last.touched :
        /\ 0 <= key[1] /\ key[1] < n
        /\ 0 <= key[2] /\ key[2] < n

C5_Witness ==
    /\ last.op = "add_res"
    /\ IdOf(1) = -1
    /\ IdOf(2) >= 0
    /\ last.touched # {}

(***************************************************************************)
(* C6: 'gnd', 'vss' and 'vdd' resolve to -1 in every reachable state, and  *)
(* resolving them allocates no index and leaves n as it was.               *)
(***************************************************************************)
C6_GroundAliases ==
    /\ \A name \in GroundNames :
          /\ name \in DOMAIN node_id
          /\ node_id[name] = -1
          /\ GetNodeId(Cur, name) = [S |-> Cur, ans |-> -1]
    /\ (/\ last.op \in AddOps
        /\ \A i \in DOMAIN last.names : last.names[i] \in GroundNames)
       => /\ n = pre.n
          /\ node_id = pre.node_id

C6_Witness ==
    /\ last.op = "add_cap"
    /\ last.names = <<"vss", "vdd">>
    /\ pre.n > 0
    /\ n = pre.n

(***************************************************************************)
(* C7: non-ground names receive 0, 1, 2, ... in order of first use: the    *)
(* registered non-ground names map one-to-one onto 0..n-1, n is their      *)
(* number, and a name seen before keeps its index and leaves n unchanged.  *)
(***************************************************************************)
\* seq without the names in seen and without repetitions, order kept
RECURSIVE FirstUses(_, _)
FirstUses(seq, seen) ==
    IF seq = <<>> THEN <<>>
    ELSE IF Head(seq) \in seen THEN FirstUses(Tail(seq), seen)
    ELSE <<Head(seq)>> \o FirstUses(Tail(seq), seen \cup {Head(seq)})

\* the net names of the last add in the order the method resolves them
\* (add_transistor: drain, source, gate by its first add_gm, then body)
ResolveOrder ==
    IF last.op = "add_transistor"
    THEN <<last.names[1], last.names[3], last.names[2], last.names[4]>>
    ELSE last.names

C7_SequentialIndices ==
    LET reg == DOMAIN node_id \ GroundNames
    IN  /\ Cardinality(reg) = n
        /\ {node_id[name] : name \in reg} = 0..(n - 1)
        /\ \A name \in DOMAIN pre.node_id :
              /\ name \in DOMAIN node_id
              /\ node_id[name] = pre.node_id[name]
        /\ \A name \in DOMAIN node_id :
              GetNodeId(Cur, name) = [S |-> Cur, ans |-> node_id[name]]
        /\ last.op \in AddOps =>
              LET new == FirstUses(ResolveOrder,
                                   DOMAIN pre.node_id \cup (Names \ DOMAIN node_id))
              IN  /\ n = pre.n + Len(new)
                  /\ \A i \in 1..Len(new) : node_id[new[i]] = pre.n + i - 1
        /\ last.op \in PrimitiveAdds =>
              \A i \in DOMAIN last.names : last.names[i] \in DOMAIN node_id

C7_Witness ==
    /\ last.op = "add_res"
    /\ last.names[1] \in DOMAIN pre.node_id \ GroundNames
    /\ last.names[2] \notin DOMAIN pre.node_id
    /\ n = 2
    /\ node_id[last.names[2]] = 1

(***************************************************************************)
(* C8: no query mutates the circuit: a voltage-gain, impedance-gain or     *)
(* impedance query, whether it returns or fails (same node, shorted port,  *)
(* singular matrix, unregistered name), leaves the name-to-index map, n, G *)
(* and C exactly as they were.                                             *)
(***************************************************************************)
C8_QueriesDoNotMutate ==
    last.op \in QueryOps =>
        /\ node_id = pre.node_id
        /\ n = pre.n
        /\ gmat_data = pre.gmat_data
        /\ cmat_data = pre.cmat_data

C8_Witness ==
    /\ last.op = "get_impedance_gain_system"
    /\ last.exc = KeyError
    /\ last.names[1] \notin DOMAIN node_id
    /\ n > 0

(***************************************************************************)
(* C9: a voltage-gain query whose input and output names resolve to the    *)
(* same index fails with the same-node error before any matrix is built;   *)
(* one whose names resolve to different indices never fails with it.       *)
(***************************************************************************)
C9_SameNodeError ==
    (/\ last.op = "get_voltage_gain_system"
     /\ last.names[1] \in DOMAIN pre.node_id
     /\ last.names[2] \in DOMAIN pre.node_id)
    => IF pre.node_id[last.names[1]] = pre.node_id[last.names[2]]
       THEN last.exc = SameNodeError /\ ~last.built
       ELSE last.exc # SameNodeError /\ last.built

C9_Witness ==
    /\ last.op = "get_voltage_gain_system"
    /\ last.names = <<"vss", "vdd">>
    /\ last.exc = SameNodeError
    /\ n > 0

(***************************************************************************)
(* C10: an impedance-gain or impedance query with a non-empty short name   *)
(* that resolves to the index of the input or of the output fails with the *)
(* shorted-port error before any matrix is built; with an empty short name *)
(* the check is skipped, and input = output is accepted and is no error in *)
(* itself.                                                                 *)
(***************************************************************************)
\* the input, output and short names of the last impedance query
ImpIn == last.names[1]

ImpOut == IF last.op = "get_impedance" THEN last.names[1] ELSE last.names[2]

ImpShort == last.names[Len(last.names)]

C10_ShortedPortError ==
    (/\ last.op \in {"get_impedance_gain_system", "get_impedance"}
     /\ ImpIn \in DOMAIN pre.node_id
     /\ ImpOut \in DOMAIN pre.node_id
     /\ ImpShort = "" \/ ImpShort \in DOMAIN pre.node_id)
    => IF /\ ImpShort # ""
          /\ \/ pre.node_id[ImpShort] = pre.node_id[ImpIn]
             \/ pre.node_id[ImpShort] = pre.node_id[ImpOut]
       THEN last.exc = ShortedPortError /\ ~last.built
       ELSE last.exc \notin {ShortedPortError, SameNodeError} /\ last.built

C10_Witness ==
    /\ last.op = "get_impedance_gain_system"
    /\ ImpShort # ""
    /\ ImpIn # ImpOut
    /\ ImpShort # ImpOut
    /\ {ImpIn, ImpOut, ImpShort} \subseteq DOMAIN pre.node_id
    /\ pre.node_id[ImpShort] = pre.node_id[ImpOut]
    /\ pre.node_id[ImpIn] # pre.node_id[ImpOut]
    /\ last.exc = ShortedPortError

(***************************************************************************)
(* C11: if a node that stays in the state vector has no capacitor attached *)
(* (its row and column of C are entirely zero), a voltage-gain query       *)
(* eliminating another node as input ends in the singular-matrix error,    *)
(* and so does an impedance-gain query on such a circuit.                  *)
(***************************************************************************)
\* node k has no entry in its row and column of the capacitance table
NoCapAt(k) ==
    \A j \in 0..(pre.n - 1) :
        /\ RIsZero(Entry(pre.cmat_data, <<k, j>>))
        /\ RIsZero(Entry(pre.cmat_data, <<j, k>>))

C11_SingularWithoutCap ==
    /\ (/\ last.op = "get_voltage_gain_system"
        /\ {last.names[1], last.names[2]} \subseteq DOMAIN pre.node_id
        /\ pre.node_id[last.names[1]] >= 0
        /\ pre.node_id[last.names[1]] # pre.node_id[last.names[2]]
        /\ \E k \in 0..(pre.n - 2) :
              NoCapAt(RangeExcept(0, pre.n, pre.node_id[last.names[1]])[k + 1]))
       => last.exc = SingularMatrixError
    /\ (/\ last.op \in {"get_impedance_gain_system", "get_impedance"}
        /\ {ImpIn, ImpOut} \subseteq DOMAIN pre.node_id
        /\ ImpShort = "" \/ ImpShort \in DOMAIN pre.node_id
        /\ ImpShort # "" => /\ pre.node_id[ImpShort] # pre.node_id[ImpIn]
                            /\ pre.node_id[ImpShort] # pre.node_id[ImpOut]
        /\ \E k \in 0..((IF ImpShort = "" THEN pre.n ELSE pre.n - 1) - 1) :
              NoCapAt(k))
       => last.exc = SingularMatrixError

C11_Witness ==
    /\ last.op = "get_voltage_gain_system"
    /\ {last.names[1], last.names[2]} \subseteq DOMAIN pre.node_id
    /\ pre.node_id[last.names[1]] = 0
    /\ pre.node_id[last.names[2]] = 2
    /\ last.exc = SingularMatrixError

(***************************************************************************)
(* C12: the trimming step never strips below one remaining coefficient:    *)
(* for every numerator and tolerance it ends normally with a numerator of  *)
(* length at least 1.                                                      *)
(***************************************************************************)
C12_TrimKeepsOneCoefficient ==
    trim.pc \in {"returned", "again"} =>
        /\ trim.first.exc = NoExc
        /\ Len(trim.first.num) >= 1

(***************************************************************************)
(* C13: for a numerator with a coefficient of magnitude above the          *)
(* tolerance, trimming returns exactly the suffix that starts at the first *)
(* such coefficient (a coefficient of magnitude equal to the tolerance is  *)
(* removed, later coefficients keep value and order) and the denominator   *)
(* untouched.                                                              *)
(***************************************************************************)
AboveTol(x, atol) == ~RLeq(RAbs(x), atol)

\* the position of the first coefficient above the tolerance, 0 if none
FirstAbove(num, atol) ==
    IF \E i \in 1..Len(num) : AboveTol(num[i], atol)
    THEN CHOOSE i \in 1..Len(num) :
             /\ AboveTol(num[i], atol)
             /\ \A j \in 1..(i - 1) : ~AboveTol(num[j], atol)
    ELSE 0

C13_TrimReturnsSuffix ==
    (trim.pc \in {"returned", "again"} /\ FirstAbove(trim.num, trim.atol) > 0) =>
        /\ trim.first.exc = NoExc
        /\ trim.first.num = SubSeq(trim.num, FirstAbove(trim.num, trim.atol),
                                   Len(trim.num))
        /\ \A i \in 1..(FirstAbove(trim.num, trim.atol) - 1) :
              RLeq(RAbs(trim.num[i]), trim.atol)
        /\ trim.first.den = trim.den

\* a leading coefficient equal to a positive tolerance was dropped and a
\* zero after the first large coefficient was kept
C13_Witness ==
    /\ trim.pc = "returned"
    /\ Len(trim.num) = 3
    /\ trim.atol = <<1, 2>>
    /\ trim.num[1] = <<1, 2>>
    /\ trim.first.exc = NoExc
    /\ trim.first.num = <<Rat(-1), Rat(0)>>

(***************************************************************************)
(* C14: trimming is idempotent: trimming a trimmed numerator with the same *)
(* tolerance returns it unchanged, whenever the first trimming completes.  *)
(***************************************************************************)
C14_TrimIdempotent ==
    trim.pc = "again" =>
        /\ trim.second.exc = NoExc
        /\ trim.second.num = trim.first.num
        /\ trim.second.den = trim.first.den

C14_Witness ==
    /\ trim.pc = "again"
    /\ Len(trim.num) = 3
    /\ Len(trim.first.num) = 1
    /\ trim.second = trim.first

(***************************************************************************)
(* C15: for the circuit built by add_res(R, in, out) then                  *)
(* add_cap(C, out, gnd), the voltage-gain query from in to out completes   *)
(* and returns a single-pole transfer function: numerator proportional to  *)
(* [1] and denominator to [R*C, 1].                                        *)
(***************************************************************************)
\* the script `name` has ended: its last call returned, or a call raised
ScriptDone(name) ==
    /\ script.name = name
    /\ script.pc > ScriptLength[name] \/ last.exc # NoExc

C15_LowPassGain ==
    ScriptDone("rc") =>
        /\ last.op = "get_voltage_gain_system"
        /\ last.exc = NoExc
        /\ Len(last.tf.num) = 1
        /\ Len(last.tf.den) = 2
        /\ ~RIsZero(last.tf.num[1])
        /\ last.tf.num[1] = last.tf.den[2]
        /\ last.tf.den[1] = RMul(RMul(script.res, script.cap), last.tf.den[2])

(***************************************************************************)
(* C16: for the circuit built by add_gm(gm, out, gnd, in, gnd),            *)
(* add_res(R, out, gnd), add_cap(C, out, gnd), the voltage gain from in to *)
(* out completes with DC gain -gm*R, a single pole at 1/(R*C) and no       *)
(* feedthrough.                                                            *)
(***************************************************************************)
C16_CommonSourceGain ==
    ScriptDone("cs") =>
        /\ last.op = "get_voltage_gain_system"
        /\ last.exc = NoExc
        /\ Len(last.tf.num) = 1
        /\ Len(last.tf.den) = 2
        /\ ~RIsZero(last.tf.den[2])
        /\ last.tf.num[1] = RMul(RNeg(RMul(script.gm, script.res)),
                                 last.tf.den[2])
        /\ last.tf.den[1] = RMul(RMul(script.res, script.cap), last.tf.den[2])

(***************************************************************************)
(* C17: for one resistor R and one capacitor C from the same node to       *)
(* ground the driving-point impedance system has the transfer function     *)
(* 1/(C*s + 1/R) (A = -1/(R*C), B = 1/C, C_out = 1, D = 0) and the         *)
(* impedance at frequency f is 1/(1/R + j*2*pi*f*C), R at f = 0.           *)
(***************************************************************************)
C17_DrivingPointImpedance ==
    ScriptDone("zin") =>
        /\ last.op = "get_impedance"
        /\ last.exc = NoExc
        /\ Len(last.tf.num) = 1
        /\ Len(last.tf.den) = 2
        /\ ~RIsZero(last.tf.num[1])
        /\ last.tf.den[1] = RMul(script.cap, last.tf.num[1])
        /\ last.tf.den[2] = RMul(RInv(script.res), last.tf.num[1])
        /\ last.zin = CDiv(<<Rat(1), Rat(0)>>,
                           <<RInv(script.res),
                             RMul(WTest(script.freq), script.cap)>>)

(***************************************************************************)
(* C18: add_transistor(params, d, g, s, b, fg) leaves the circuit in       *)
(* exactly the state reached by the primitive adds with every parameter    *)
(* multiplied by fg: a VCCS gm from d to s controlled by (g, s), a         *)
(* conductance gds between d and s, a VCCS gb from d to s controlled by    *)
(* (b, s), and the capacitors cgd (g,d), cgs (g,s), cgb (g,b), cds (d,s),  *)
(* cdb (d,b), csb (s,b), for every choice of terminal names, coinciding    *)
(* and ground ones included.                                               *)
(***************************************************************************)
\* the contribution of a two-terminal element, none for a self-loop
ElementDelta(p, q, x, key) ==
    IF p = q THEN Rat(0) ELSE TwoTerminalDelta(p, q, x, key)

\* the contribution of a VCCS, none when p = q or cp = cq
SourceDelta(p, q, cp, cq, gm, key) ==
    IF p = q \/ cp = cq THEN Rat(0) ELSE GmDelta(p, q, cp, cq, gm, key)

\* parameter `field` of the last add_transistor, times fg
Scaled(field) == RMul(TranInfos[last.info][field], last.val)

C18_TransistorAsPrimitives ==
    (last.op = "add_transistor" /\ ~RIsZero(Scaled("gds"))) =>
        /\ last.exc = NoExc
        /\ LET new == FirstUses(ResolveOrder, DOMAIN pre.node_id)
           IN  /\ n = pre.n + Len(new)
               /\ DOMAIN node_id = DOMAIN pre.node_id \cup {new[i] : i \in 1..Len(new)}
               /\ \A i \in 1..Len(new) : node_id[new[i]] = pre.n + i - 1
        /\ LET d == IdOf(1)
               g == IdOf(2)
               s == IdOf(3)
               b == IdOf(4)
           IN  \A key \in AllKeys :
                  /\ Entry(gmat_data, key) =
                        RAdd(RAdd(Entry(pre.gmat_data, key),
                                  SourceDelta(d, s, g, s, Scaled("gm"), key)),
                             RAdd(ElementDelta(d, s, Scaled("gds"), key),
                                  SourceDelta(d, s, b, s, Scaled("gb"), key)))
                  /\ Entry(cmat_data, key) =
                        RAdd(RAdd(RAdd(Entry(pre.cmat_data, key),
                                       ElementDelta(g, d, Scaled("cgd"), key)),
                                  RAdd(ElementDelta(g, s, Scaled("cgs"), key),
                                       ElementDelta(g, b, Scaled("cgb"), key))),
                             RAdd(RAdd(ElementDelta(d, s, Scaled("cds"), key),
                                       ElementDelta(d, b, Scaled("cdb"), key)),
                                  ElementDelta(s, b, Scaled("csb"), key)))
        /\ DOMAIN gmat_data \cup DOMAIN cmat_data \subseteq AllKeys

(***************************************************************************)
(* C19: add_cap applies to C exactly the pattern add_res applies to G,     *)
(* with the capacitance in place of 1/R, and never changes G; add_res and  *)
(* add_gm never change C.                                                  *)
(***************************************************************************)
\* circuit S with the roles of its two tables exchanged
Swapped(S) == [S EXCEPT !.gmat_data = S.cmat_data, !.cmat_data = S.gmat_data]

C19_CapMirrorsRes ==
    /\ last.op = "add_cap" =>
          LET R == AddRes(Swapped(pre), RInv(last.val),
                          last.names[1], last.names[2])
          IN  /\ cmat_data = R.gmat_data
              /\ gmat_data = pre.gmat_data
              /\ node_id = R.node_id
              /\ n = R.n
              /\ last.exc = R.exc
              /\ last.touched = R.touched
    /\ last.op \in {"add_res", "add_gm"} => cmat_data = pre.cmat_data

\* an add_cap between two nodes given in ascending order of index: the
\* pattern starts at the diagonal key of the higher one, as add_res does
C19_Witness ==
    /\ last.op = "add_cap"
    /\ IdOf(1) >= 0
    /\ IdOf(1) < IdOf(2)
    /\ last.touched = {<<IdOf(2), IdOf(2)>>}
    /\ gmat_data = pre.gmat_data

(***************************************************************************)
(* C20: after add_res calls between non-ground nodes every row and every   *)
(* column of G sums to 0; with resistors to ground the sum of row i over   *)
(* the non-ground columns is the total conductance from node i to ground.  *)
(* The same holds for C under add_cap.  Stated per call: a resistor or     *)
(* capacitor of value x adds x to the row sum and the column sum of node i *)
(* when it connects i to ground, and leaves every other sum as it was.     *)
(***************************************************************************)
RowSum(mat, i) == RSum([j \in 0..(n - 1) |-> Entry(mat, <<i, j>>)], 0, n - 1)

ColSum(mat, i) == RSum([j \in 0..(n - 1) |-> Entry(mat, <<j, i>>)], 0, n - 1)

\* what the last two-terminal call, of value x, connects from node i to ground
ToGround(i, x) ==
    IF (IdOf(1) = i /\ IdOf(2) < 0) \/ (IdOf(2) = i /\ IdOf(1) < 0)
    THEN x ELSE Rat(0)

C20_KirchhoffSums ==
    /\ TwoTerminalCall("add_res") =>
          \A i \in 0..(n - 1) :
             /\ RowSum(gmat_data, i) =
                   RAdd(RowSum(pre.gmat_data, i), ToGround(i, RInv(last.val)))
             /\ ColSum(gmat_data, i) =
                   RAdd(ColSum(pre.gmat_data, i), ToGround(i, RInv(last.val)))
    /\ TwoTerminalCall("add_cap") =>
          \A i \in 0..(n - 1) :
             /\ RowSum(cmat_data, i) =
                   RAdd(RowSum(pre.cmat_data, i), ToGround(i, last.val))
             /\ ColSum(cmat_data, i) =
                   RAdd(ColSum(pre.cmat_data, i), ToGround(i, last.val))

(***************************************************************************)
(* C21: two circuits built from the same elements added in different       *)
(* orders are equal up to a permutation of the node indices: the names are *)
(* registered in both, the map from the index of a name in one to its      *)
(* index in the other is a bijection, and under it G and C coincide entry  *)
(* by entry; when every name of the elements was registered before, G and  *)
(* C are identical.  Stated for two elements in the two orders, from any   *)
(* circuit: the last call x followed by an element e, against e followed   *)
(* by x.                                                                   *)
(***************************************************************************)
\* the circuit after the add call c = <<method, nets, value>> on circuit S
Added(S, c) ==
    IF c[1] = "add_gm" THEN AddGm(S, c[3], c[2][1], c[2][2], c[2][3], c[2][4])
    ELSE IF c[1] = "add_res" THEN AddRes(S, c[3], c[2][1], c[2][2])
    ELSE AddCap(S, c[3], c[2][1], c[2][2])

\* the elements added in the other order
OtherElements ==
    { <<"add_res", <<"b", "a">>, Rat(2)>>,
      <<"add_cap", <<"c", "b">>, Rat(1)>>,
      <<"add_gm", <<"c", "gnd", "a", "b">>, Rat(2)>> }

\* circuits A and B hold the same entries under the renumbering that takes
\* the index of each name in A to its index in B
IndexPermuted(A, B) ==
    /\ DOMAIN A.node_id = DOMAIN B.node_id
    /\ A.n = B.n
    /\ \A u \in DOMAIN A.node_id \ GroundNames :
          /\ B.node_id[u] \in 0..(B.n - 1)
          /\ \A v \in DOMAIN A.node_id \ GroundNames :
                /\ (A.node_id[u] = A.node_id[v]) <=> (B.node_id[u] = B.node_id[v])
                /\ Entry(A.gmat_data, <<A.node_id[u], A.node_id[v]>>) =
                      Entry(B.gmat_data, <<B.node_id[u], B.node_id[v]>>)
                /\ Entry(A.cmat_data, <<A.node_id[u], A.node_id[v]>>) =
                      Entry(B.cmat_data, <<B.node_id[u], B.node_id[v]>>)

\* the same entries at the same indices
SameTables(A, B) ==
    /\ A.node_id = B.node_id
    /\ \A key \in AllKeys :
          /\ Entry(A.gmat_data, key) = Entry(B.gmat_data, key)
          /\ Entry(A.cmat_data, key) = Entry(B.cmat_data, key)

\* the nets of element c
NetsOf(c) == {c[2][i] : i \in 1..Len(c[2])}

\* x then e against e then x, both from circuit S
BothOrders(S, x, e) ==
    LET xe == Added(Added(S, x), e)
        ex == Added(Added(S, e), x)
    IN  /\ xe.exc = NoExc
        /\ ex.exc = NoExc
        /\ IndexPermuted(xe, ex)
        /\ (NetsOf(x) \cup NetsOf(e) \subseteq DOMAIN S.node_id) => SameTables(xe, ex)

Position(idx, removed) == IF idx > removed THEN idx - 1 ELSE idx

\* dict_to_csc_mat has been called at the call site `site`
CscBuilt(site) ==
    /\ csc.pc \in {"built", "core"}
    /\ csc.site = site

C22_VoltageGainRowsShifted ==
    (CscBuilt("voltage_gain") /\ csc.size >= 2 /\ csc.node >= 0) =>
        LET i == csc.node
            retained == {key \in DOMAIN csc.table : key[1] # i}
            others == (0..(csc.size - 1)) \ {i}
        IN  /\ csc.mat.exc = NoExc
            /\ csc.mat.nrows = csc.size - 1
            /\ csc.mat.ncols = csc.size
            /\ DOMAIN csc.mat.ent =
                  {<<Position(key[1], i), key[2]>> : key \in retained}
            /\ \A key \in retained :
                  csc.mat.ent[<<Position(key[1], i), key[2]>>] = csc.table[key]
            /\ DOMAIN csc.mat.ent \subseteq
                  (0..(csc.size - 2)) \X (0..(csc.size - 1))
            /\ csc.pc = "core" =>
                  /\ csc.core.nrows = csc.size - 1
                  /\ csc.core.ncols = csc.size - 1
                  /\ \A row \in others, col \in others :
                        At(csc.core, Position(row, i), Position(col, i)) =
                           Entry(csc.table, <<row, col>>)

(***************************************************************************)
(* C23: in an impedance-gain query with a non-ground short node k the      *)
(* materialized matrix holds exactly the accumulated entries with row # k  *)
(* and column # k, every row and column index above k decreased by one, so *)
(* that all entries fit the shape (n-1) x (n-1) for every k, and the       *)
(* remapped index of a node addresses the row and the column of that node. *)
(***************************************************************************)
C23_ShortRowsAndColumnsShifted ==
    (CscBuilt("short") /\ csc.size >= 2 /\ csc.node >= 0) =>
        LET k == csc.node
            retained == {key \in DOMAIN csc.table : key[1] # k /\ key[2] # k}
            others == (0..(csc.size - 1)) \ {k}
        IN  /\ csc.mat.exc = NoExc
            /\ csc.mat.nrows = csc.size - 1
            /\ csc.mat.ncols = csc.size - 1
            /\ DOMAIN csc.mat.ent =
                  {<<Position(key[1], k), Position(key[2], k)>> : key \in retained}
            /\ \A key \in retained :
                  csc.mat.ent[<<Position(key[1], k), Position(key[2], k)>>] =
                     csc.table[key]
            /\ DOMAIN csc.mat.ent \subseteq
                  (0..(csc.size - 2)) \X (0..(csc.size - 2))
            /\ \A node_in \in others, node_out \in others :
                  At(csc.mat, Remapped(node_out, k), Remapped(node_in, k)) =
                     Entry(csc.table, <<node_out, node_in>>)

QueryBuilt ==
    /\ last.op \in QueryOps
    /\ last.built

\* the last query executed the statements after its factorization, where
\* node_in and node_out select rows and columns
IndicesUsed ==
    /\ QueryBuilt
    /\ last.loc.stage \in {"statespace", "return"}

C25_IndicesInsideMatrix ==
    QueryBuilt =>
        LET nrows == last.loc.mat_shape[1]
            ncols == last.loc.mat_shape[2]
        IN  /\ nrows < pre.n => last.loc.ignore_row \in 0..(pre.n - 1)
            /\ nrows >= 0
            /\ IndicesUsed =>
                  /\ last.loc.node_out \in 0..(nrows - 1)
                  /\ last.loc.node_in \in 0..(ncols - 1)

(***************************************************************************)
(* C26: every add registers all of its terminal names before it tests for  *)
(* a self-loop, so that a dropped element still changes the registry       *)
(* (after add_res(R, 'a', 'a') on an empty circuit n = 1 and G, C are      *)
(* empty), and n counts the distinct non-ground names ever passed to an    *)
(* add.  Stated per call: an add raises n by the number of its names that  *)
(* were not registered, and all of its names are registered after it.      *)
(***************************************************************************)
\* the names of the last call that were not registered before it
NewNames == FirstUses(last.names, DOMAIN pre.node_id)

\* the nodes that have an entry in G or C
NodesWithEntries ==
    {key[1] : key \in DOMAIN gmat_data \cup DOMAIN cmat_data}
    \cup {key[2] : key \in DOMAIN gmat_data \cup DOMAIN cmat_data}

FourNetTransistor ==
    /\ last.op = "add_transistor"
    /\ pre.n = 0
    /\ Cardinality({last.names[i] : i \in 1..4}) = 4
    /\ \A i \in 1..4 : last.names[i] \notin GroundNames
    /\ ~RIsZero(Scaled("gds"))

C27_TransistorIndexOrder ==
    FourNetTransistor =>
        /\ \A i \in 1..4 : last.names[i] \in DOMAIN node_id
        /\ node_id[last.names[1]] = 0
        /\ node_id[last.names[3]] = 1
        /\ node_id[last.names[2]] = 2
        /\ node_id[last.names[4]] = 3
        /\ n = 4

(***************************************************************************)
(* C28: in every reachable state C is symmetric (C[i,j] = C[j,i]), and G   *)
(* is symmetric in every state reached by add_res and add_cap only; G can  *)
(* become asymmetric only through add_gm, directly or in add_transistor.   *)
(* Stated per call: a resistor or capacitor between two different nodes is *)
(* stored and every call other than add_gm and add_transistor leaves a     *)
(* symmetric G symmetric, while an add_gm from a node p to ground          *)
(* controlled by another node cp makes a symmetric G asymmetric.           *)
(***************************************************************************)
Symmetric(mat) ==
    \A key \in AllKeys : Entry(mat, key) = Entry(mat, <<key[2], key[1]>>)

\* the last call is add_gm(gm, p, ground, cp, ground), p and cp two
\* different nodes
OneSidedGm ==
    /\ last.op = "add_gm"
    /\ IdOf(1) >= 0
    /\ IdOf(3) >= 0
    /\ IdOf(1) # IdOf(3)
    /\ IdOf(2) < 0
    /\ IdOf(4) < 0

SameEntries(A, B) == \A key \in AllKeys : Entry(A, key) = Entry(B, key)

\* the last call is add_gm(g, p, n, p, n) with p and n registered before it
\* and of different indices
SelfControlledGm ==
    /\ last.op = "add_gm"
    /\ last.names[3] = last.names[1]
    /\ last.names[4] = last.names[2]
    /\ last.names[1] \in DOMAIN pre.node_id
    /\ last.names[2] \in DOMAIN pre.node_id
    /\ IdOf(1) # IdOf(2)

\* the call that follows the last add_gm, with the given nets, undoes it
Undoes(p_name, n_name, cp_name, cn_name) ==
    LET R == AddGm(Cur, last.val, p_name, n_name, cp_name, cn_name)
    IN  /\ R.exc = NoExc
        /\ SameEntries(R.gmat_data, pre.gmat_data)

ZeroResistor ==
    /\ last.op = "add_res"
    /\ RIsZero(last.val)
    /\ last.names[1] # last.names[2]
    /\ ~(last.names[1] \in GroundNames /\ last.names[2] \in GroundNames)

\* the last call is add_transistor with gds*fg = 0
ZeroGdsTransistor ==
    /\ last.op = "add_transistor"
    /\ RIsZero(Scaled("gds"))

\* the last call wrote no entry and addressed no key
NothingWritten ==
    /\ gmat_data = pre.gmat_data
    /\ cmat_data = pre.cmat_data
    /\ last.touched = {}

C30_ZeroDivisorWritesNothing ==
    /\ ZeroResistor =>
          /\ last.exc = ZeroDivisionError
          /\ NothingWritten
          /\ last.names[1] \in DOMAIN node_id
          /\ last.names[2] \in DOMAIN node_id
          /\ n = pre.n + Len(NewNames)
    /\ ZeroGdsTransistor =>
          /\ last.exc = ZeroDivisionError
          /\ NothingWritten
          /\ node_id = pre.node_id
          /\ n = pre.n

\* add_res(0, p, n) that registered both of its names, and later an
\* add_transistor with gds = 0 on a name not registered
C30_Witness ==
    \/ /\ ZeroResistor
       /\ last.exc = ZeroDivisionError
       /\ n = pre.n + 2
    \/ /\ ZeroGdsTransistor
       /\ last.exc = ZeroDivisionError
       /\ \E i \in 1..4 : last.names[i] \notin DOMAIN node_id

=============================================================================
